---- MODULE Spec2Model ----
\* Model of the agent-data store API and its WebSocket broadcaster
\* (src/lab2/main.py).  The asyncio event loop runs one coroutine at a time
\* and switches only at an await; handlers declared with plain "def" run on
\* worker threads and interleave at every database call.
EXTENDS Integers, Sequences, FiniteSets, TLC

\* ---------------------------------------------------------------- bounds
NumWS == 3          \* WebSocket connections
NumBcast == 2       \* calls of send_data_to_subscribers
NumReq == 2         \* HTTP requests in flight at once
MaxId == 2          \* ids the table's sequence hands out
MaxBatch == 2       \* records in one POST body
MaxReading == 17    \* accelerometer readings lie in -MaxReading..MaxReading
MaxRows == 3        \* data rows of a CSV file

WS == 1..NumWS
Bcasts == 1..NumBcast
Reqs == 1..NumReq
Ids == 1..MaxId

\* Python's None, and a row that fetchone() did not find: the empty sequence.
\* A found row is the one-element sequence holding it.
None == <<>>

\* ------------------------------------------------------------ input data
\* Two ProcessedAgentData values (main.py:58-88), all fields distinct.
Item1 ==
    [road_state |-> "straight",
     agent_data |-> [accelerometer |-> [x |-> 1, y |-> 2, z |-> 3],
                     gps |-> [latitude |-> 10, longitude |-> 20],
                     timestamp |-> 100]]

Item2 ==
    [road_state |-> "pit",
     agent_data |-> [accelerometer |-> [x |-> 4, y |-> 16, z |-> 6],
                     gps |-> [latitude |-> 30, longitude |-> 40],
                     timestamp |-> 200]]

Items == {Item1, Item2}

VARIABLES
    subscriptions,  \* main.py:38, the set of registered WebSockets
    wsPc,           \* position of each websocket_endpoint coroutine
    peer,           \* the client end of each connection: up, stalled, down
    inbox,          \* frames written to each connection, in order
    bc,             \* the calls of send_data_to_subscribers
    heap,           \* committed rows of processed_agent_data, physical order
    nextId,         \* the id sequence of the table
    req,            \* the HTTP handlers in flight
    handed,         \* ids create_processed_agent_data passed to the broadcaster
    batches,        \* the id sets of the batches executed so far
    gone,           \* ids deleted so far
    sample,         \* the AgentData handed to process_agent_data
    processed,      \* what process_agent_data returned
    files,          \* the rows of the three CSV files of a FileDatasource
    fds             \* the FileDatasource: its readers and its last read()

wsVars == <<subscriptions, wsPc, peer, inbox, bc>>
dbVars == <<heap, nextId, req, handed, batches, gone>>
labVars == <<sample, processed, files, fds>>
vars == <<subscriptions, wsPc, peer, inbox, bc,
          heap, nextId, req, handed, batches, gone,
          sample, processed, files, fds>>

\* json.dumps, as a tagged value: dumps(dumps(x)) is not dumps(x).
dumps(x) == <<"json", x>>

\* WebSocket.send_json(obj) serialises obj once more before it is sent.
send_json_text(obj) == dumps(obj)

\* The frame send_data_to_subscribers puts on a connection (main.py:126).
Frame(b, data) == [call |-> b, text |-> send_json_text(dumps(data))]

\* ------------------------------------------------------- set iteration
\* CPython keeps each element of a set in a fixed slot of its hash table
\* while the table is not resized (fewer than five entries ever added), and
\* iterates in slot order.  Connection w occupies slot w.
NewIter == [si_used |-> Cardinality(subscriptions), si_pos |-> 0]

\* setiter_iternext: RuntimeError when the size differs from the size at
\* creation; otherwise the next occupied slot after si_pos, or StopIteration.
IterSizeChanged(it, s) == it.si_used # Cardinality(s)

IterRest(it, s) == {w \in s : w > it.si_pos}

IterNext(it, s) == CHOOSE w \in IterRest(it, s) : \A v \in IterRest(it, s) : w <= v

\* A call of send_data_to_subscribers: its position, payload, iterator, the
\* connection it is sending to and the exception that ended it; at records
\* the subscriptions at the time of the call.
BcIdle == [pc |-> "idle", data |-> None, it |-> [si_used |-> 0, si_pos |-> 0],
           cur |-> 0, exc |-> "", at |-> {}]

\* ------------------------------------------------------------ responses
HTTP_OK == 200
HTTP_BAD_REQUEST == 400
HTTP_ERROR == 500

\* raise HTTPException(status_code=..., detail=...)
HTTPException(status, detail) == [status |-> status, body |-> <<>>, detail |-> detail]

\* An exception no handler catches: the server answers 500.
Unhandled == [status |-> HTTP_ERROR, body |-> <<>>, detail |-> "Internal Server Error"]

\* Return of a handler declared with response_model=ProcessedAgentDataInDB
\* (main.py:167, 199, 228): the value is validated against the model, and
\* None is no ProcessedAgentDataInDB, so the validation error goes unhandled.
ReturnModel(value) ==
    IF value = None THEN Unhandled
    ELSE [status |-> HTTP_OK, body |-> value, detail |-> ""]

\* Return of a handler with no response model (main.py:131) or a list model
\* (main.py:184).
ReturnPlain(value) == [status |-> HTTP_OK, body |-> value, detail |-> ""]

\* "except Exception: raise HTTPException(status_code=500, detail="Error")"
\* (main.py:160-161, 176-177, 191-192, 222-223, 243-244): whatever was raised
\* inside the try block, the handler answers with this.
Caught(exc) == HTTPException(HTTP_ERROR, "Error")

\* ---------------------------------------------------------------- store
\* Each handler works on db = get_db() (main.py:103-108), taken here as a
\* session of the engine with autocommit off, which is how every handler
\* uses it: execute, commit, close.  Statements see committed rows only;
\* close() drops what was not committed.
\* A flattening that stores the x and y readings in each other's column.
FlattenSwapped(item) ==
    [road_state |-> item.road_state,
     x |-> item.agent_data.accelerometer.y,
     y |-> item.agent_data.accelerometer.x,
     z |-> item.agent_data.accelerometer.z,
     latitude |-> item.agent_data.gps.latitude,
     longitude |-> item.agent_data.gps.longitude,
     timestamp |-> item.agent_data.timestamp]

\* main.py:140-148 and 208-214: the flattened column values of an item.
Flatten(item) ==
    [road_state |-> item.road_state,
     x |-> item.agent_data.accelerometer.x,
     y |-> item.agent_data.accelerometer.y,
     z |-> item.agent_data.accelerometer.z,
     latitude |-> item.agent_data.gps.latitude,
     longitude |-> item.agent_data.gps.longitude,
     timestamp |-> item.agent_data.timestamp]

\* A row of processed_agent_data (main.py:44-55): the columns and the id.
StoredRow(id, cols) ==
    [id |-> id, road_state |-> cols.road_state, x |-> cols.x, y |-> cols.y,
     z |-> cols.z, latitude |-> cols.latitude, longitude |-> cols.longitude,
     timestamp |-> cols.timestamp]

SeqIds(rows) == {rows[i].id : i \in DOMAIN rows}

\* select(processed_agent_data).where(id == ...), fetchone()
SelectById(h, id) ==
    IF \E i \in DOMAIN h : h[i].id = id
    THEN <<h[CHOOSE i \in DOMAIN h : h[i].id = id]>>
    ELSE None

Without(h, id) == SelectSeq(h, LAMBDA row : row.id # id)

\* The POST bodies: non-empty lists of at most MaxBatch items.
Batches == UNION {[1..n -> Items] : n \in 1..MaxBatch}

\* The rows one INSERT statement adds for a batch (main.py:138-155), ids
\* drawn from the table's sequence starting at first.
InsertRows(batch, first) ==
    [i \in DOMAIN batch |-> StoredRow(first + i - 1, Flatten(batch[i]))]

\* A commit that keeps the first row of a batch when it fails.
CommitInsertPartial(h, rows, ok) == IF ok THEN h \o rows ELSE h \o <<rows[1]>>

\* db.commit() of the session that executed the INSERT (main.py:159-163):
\* all rows become visible together, or, when the commit fails, none does.
CommitInsert(h, rows, ok) == IF ok THEN h \o rows ELSE h

\* A commit after an UPDATE that leaves the old version of the row in place.
CommitUpdateLost(h, rows, ok) == h

\* db.commit() after an UPDATE (main.py:216-217): the row's new version
\* replaces the old one; the new version lies at the end of the heap.
CommitUpdate(h, rows, ok) ==
    IF ok /\ rows # <<>> THEN Without(h, rows[1].id) \o rows ELSE h

\* A commit after a DELETE that had no WHERE clause.
CommitDeleteAll(h, rows, ok) == IF ok /\ rows # <<>> THEN <<>> ELSE h

\* db.commit() after a DELETE (main.py:240-241).
CommitDelete(h, rows, ok) ==
    IF ok /\ rows # <<>> THEN Without(h, rows[1].id) ELSE h

\* A handler that notifies of its rows whether or not the commit succeeded.
CreateNotifyAlways(rows, committed) == SeqIds(rows)

\* What create_processed_agent_data passes to send_data_to_subscribers
\* after it has stored rows: lines 131-163 hold no such call.
CreateNotify(rows, committed) == {}

NoResponse == [status |-> 0, body |-> <<>>, detail |-> ""]

\* A handler: its position, the items of its request body (input), its
\* session's uncommitted rows (tx), the row its SELECT fetched (sel) and its
\* response; dbfail records whether a database call failed.
ReqIdle == [op |-> "none", pc |-> "idle", id |-> 0, input |-> <<>>, tx |-> <<>>,
            sel |-> None, dbfail |-> FALSE, resp |-> NoResponse]

\* A row is locked by the session that wrote it until that session ends.
Locked(r, id) ==
    \E q \in Reqs \ {r} :
        /\ req[q].op \in {"update", "delete"}
        /\ req[q].pc = "commit"
        /\ id \in SeqIds(req[q].tx)

\* ---------------------------------------------- process_agent_data
\* src/lab4/app/usecases/data_processing.py.
PIT_THRESHOLD == 15

\* The AgentData values handed to the classifier: every reading of the y
\* axis, the x and z axes at both ends of the range.
AgentSamples ==
    [accelerometer : [x : {-MaxReading, MaxReading},
                      y : -MaxReading..MaxReading,
                      z : {-MaxReading, MaxReading}],
     gps : {[latitude |-> 10, longitude |-> 20]},
     timestamp : {100}]

\* A classifier whose comparison includes the threshold.
process_agent_data_ge(agent_data) ==
    [road_state |-> IF agent_data.accelerometer.y >= PIT_THRESHOLD
                    THEN "pit" ELSE "straight",
     agent_data |-> agent_data]

\* data_processing.py:19-22.
process_agent_data(agent_data) ==
    [road_state |-> IF agent_data.accelerometer.y > PIT_THRESHOLD
                    THEN "pit" ELSE "straight",
     agent_data |-> agent_data]

\* A caller passes the sample to process_agent_data and keeps the result.
ProcessCall ==
    /\ processed = None
    /\ processed' = <<process_agent_data(sample)>>
    /\ UNCHANGED <<sample, files, fds>>
    /\ UNCHANGED wsVars
    /\ UNCHANGED dbVars

\* ----------------------------------------------------- FileDatasource
\* src/lab1/src/file_datasource.py.  A CSV cell is text; int() and float()
\* give the number it spells.
Cell(n) == <<"text", n>>

int(cell) == cell[2]

float(cell) == cell[2]

Header == <<"header">>

\* The files: a header row and up to MaxRows data rows; the cells of data
\* row k differ from file to file and from row to row.
AccelerometerFile(n) ==
    <<Header>> \o [k \in 1..n |-> <<Cell(k), Cell(k + 10), Cell(k + 20)>>]

GpsFile(n) ==
    <<Header>> \o [k \in 1..n |-> <<Cell(k + 30), Cell(k + 40)>>]

ParkingFile(n) ==
    <<Header>> \o [k \in 1..n |-> <<Cell(k + 50), Cell(k + 60), Cell(k + 70)>>]

FileSets ==
    {[accelerometer |-> AccelerometerFile(a), gps |-> GpsFile(g),
      parking |-> ParkingFile(p)] : a, g, p \in 0..MaxRows}

\* file_datasource.py:14-26: no reader yet.  A reader is the number of rows
\* it has handed out; reads counts the calls of read() that returned, out is
\* what the last one returned, exc the exception that left read().
FdsNew == [pc |-> "new", accelerometer_data |-> 0, gps_data |-> 0,
           parking_data |-> 0, reads |-> 0, out |-> None, exc |-> ""]

\* file_datasource.py:37-43: the domain objects, by the position of their
\* constructor arguments.
AggregatedData(accelerometer_row, gps_row, parking_row, now) ==
    <<<<int(accelerometer_row[1]), int(accelerometer_row[2]),
        int(accelerometer_row[3])>>,
      <<float(gps_row[1]), float(gps_row[2])>>,
      <<int(parking_row[1]), <<float(parking_row[2]), float(parking_row[3])>>>>,
      now,
      "USER_ID">>

\* next(reader) raises StopIteration when the reader has handed out every row.
Exhausted(reader, file) == reader >= Len(file)

\* sys.exit() (file_datasource.py:35): SystemExit leaves read().
SysExit(d) == [d EXCEPT !.pc = "exited", !.out = None, !.exc = "SystemExit"]

\* A read() that leaves the gps reader where it was.
readStale(d, fl, now) ==
    IF Exhausted(d.accelerometer_data, fl.accelerometer)
       \/ Exhausted(d.gps_data, fl.gps)
       \/ Exhausted(d.parking_data, fl.parking)
    THEN SysExit(d)
    ELSE [d EXCEPT !.accelerometer_data = @ + 1,
                   !.parking_data = @ + 1,
                   !.reads = @ + 1,
                   !.out = <<AggregatedData(fl.accelerometer[d.accelerometer_data + 1],
                                            fl.gps[d.gps_data + 1],
                                            fl.parking[d.parking_data + 1], now)>>]

\* file_datasource.py:28-44: the three next() calls run in order, so a reader
\* before the exhausted one has already handed out its row.
read(d, fl, now) ==
    IF Exhausted(d.accelerometer_data, fl.accelerometer)
    THEN SysExit(d)
    ELSE IF Exhausted(d.gps_data, fl.gps)
    THEN SysExit([d EXCEPT !.accelerometer_data = @ + 1])
    ELSE IF Exhausted(d.parking_data, fl.parking)
    THEN SysExit([d EXCEPT !.accelerometer_data = @ + 1, !.gps_data = @ + 1])
    ELSE [d EXCEPT !.accelerometer_data = @ + 1,
                   !.gps_data = @ + 1,
                   !.parking_data = @ + 1,
                   !.reads = @ + 1,
                   !.out = <<AggregatedData(fl.accelerometer[d.accelerometer_data + 1],
                                            fl.gps[d.gps_data + 1],
                                            fl.parking[d.parking_data + 1], now)>>]

\* datetime.now() at two calls.
Clock == {1, 2}

\* file_datasource.py:47-63: open the files (they exist), make the readers,
\* skip one row of each.
startReading ==
    /\ fds.pc = "new"
    /\ fds' = [fds EXCEPT !.pc = "reading", !.accelerometer_data = 1,
                          !.gps_data = 1, !.parking_data = 1]
    /\ UNCHANGED <<sample, processed, files>>
    /\ UNCHANGED wsVars
    /\ UNCHANGED dbVars

ReadCall(now) ==
    /\ fds.pc = "reading"
    /\ fds' = read(fds, files, now)
    /\ UNCHANGED <<sample, processed, files>>
    /\ UNCHANGED wsVars
    /\ UNCHANGED dbVars

\* ------------------------------------------------------------------ Init
\* The service after start-up: no connection, an empty table.
InitService ==
    /\ subscriptions = {}
    /\ wsPc = [w \in WS |-> "idle"]
    /\ peer = [w \in WS |-> "up"]
    /\ inbox = [w \in WS |-> <<>>]
    /\ bc = [b \in Bcasts |-> BcIdle]
    /\ heap = <<>>
    /\ nextId = 1
    /\ req = [r \in Reqs |-> ReqIdle]
    /\ handed = {}
    /\ batches = {}
    /\ gone = {}

\* The classifier and the data source are separate programs; beside the
\* service they stand still.
InitLabs ==
    /\ sample = Item1.agent_data
    /\ processed = None
    /\ files = [accelerometer |-> AccelerometerFile(0), gps |-> GpsFile(0),
                parking |-> ParkingFile(0)]
    /\ fds = FdsNew

Init == InitService /\ InitLabs

\* The classifier with any sample.
InitClassify ==
    /\ InitService
    /\ sample \in AgentSamples
    /\ processed = None
    /\ files = [accelerometer |-> AccelerometerFile(0), gps |-> GpsFile(0),
                parking |-> ParkingFile(0)]
    /\ fds = FdsNew

\* A FileDatasource constructed over any three files.
InitSource ==
    /\ InitService
    /\ sample = Item1.agent_data
    /\ processed = None
    /\ files \in FileSets
    /\ fds = FdsNew

\* ------------------------------------------------- websocket_endpoint
\* main.py:114, the coroutine suspends in "await websocket.accept()".
WsConnect(w) ==
    /\ wsPc[w] = "idle"
    /\ wsPc' = [wsPc EXCEPT ![w] = "accepting"]
    /\ UNCHANGED <<subscriptions, peer, inbox, bc>>
    /\ UNCHANGED dbVars
    /\ UNCHANGED labVars

\* main.py:115-118, accept returned: register and wait in receive_text.
WsAccepted(w) ==
    /\ wsPc[w] = "accepting"
    /\ subscriptions' = subscriptions \cup {w}
    /\ wsPc' = [wsPc EXCEPT ![w] = "receiving"]
    /\ UNCHANGED <<peer, inbox, bc>>
    /\ UNCHANGED dbVars
    /\ UNCHANGED labVars

\* main.py:117-118, a text message arrives and is dropped; the loop goes on.
WsReceiveText(w) ==
    /\ wsPc[w] = "receiving"
    /\ peer[w] = "up"
    /\ UNCHANGED vars

\* main.py:119-120, receive_text raises WebSocketDisconnect.
WsDisconnect(w) ==
    /\ wsPc[w] = "receiving"
    /\ peer[w] = "down"
    /\ subscriptions' = subscriptions \ {w}
    /\ wsPc' = [wsPc EXCEPT ![w] = "closed"]
    /\ UNCHANGED <<peer, inbox, bc>>
    /\ UNCHANGED dbVars
    /\ UNCHANGED labVars

\* main.py:116-120, receive_text raises an exception that is no
\* WebSocketDisconnect (a frame that is not text, for one): no except clause
\* takes it, the endpoint ends without line 120 and the server closes the
\* connection.
WsReceiveError(w) ==
    /\ wsPc[w] = "receiving"
    /\ peer[w] = "up"
    /\ wsPc' = [wsPc EXCEPT ![w] = "closed"]
    /\ peer' = [peer EXCEPT ![w] = "down"]
    /\ UNCHANGED <<subscriptions, inbox, bc>>
    /\ UNCHANGED dbVars
    /\ UNCHANGED labVars

\* The client of an open connection stops reading: sends to it never finish.
PeerStall(w) ==
    /\ wsPc[w] = "receiving"
    /\ peer[w] = "up"
    /\ peer' = [peer EXCEPT ![w] = "stalled"]
    /\ UNCHANGED <<subscriptions, wsPc, inbox, bc>>
    /\ UNCHANGED dbVars
    /\ UNCHANGED labVars

\* The client of an open connection goes away.
PeerClose(w) ==
    /\ wsPc[w] = "receiving"
    /\ peer[w] # "down"
    /\ peer' = [peer EXCEPT ![w] = "down"]
    /\ UNCHANGED <<subscriptions, wsPc, inbox, bc>>
    /\ UNCHANGED dbVars
    /\ UNCHANGED labVars

\* ------------------------------------------- send_data_to_subscribers
\* One turn of "for websocket in subscriptions" (main.py:125-126) from the
\* iterator state it: next(), then the call of send_json up to its await.
\* The frame is written to the connection in call order unless the client
\* is gone.
LoopTurn(b, data, it, at) ==
    IF IterSizeChanged(it, subscriptions)
    THEN /\ bc' = [bc EXCEPT ![b] = [pc |-> "raised", data |-> data, it |-> it,
                                     cur |-> 0, exc |-> "RuntimeError", at |-> at]]
         /\ UNCHANGED inbox
    ELSE IF IterRest(it, subscriptions) = {}
    THEN /\ bc' = [bc EXCEPT ![b] = [pc |-> "done", data |-> data, it |-> it,
                                     cur |-> 0, exc |-> "", at |-> at]]
         /\ UNCHANGED inbox
    ELSE LET w == IterNext(it, subscriptions) IN
         /\ bc' = [bc EXCEPT ![b] = [pc |-> "sending", data |-> data,
                                     it |-> [it EXCEPT !.si_pos = w],
                                     cur |-> w, exc |-> "", at |-> at]]
         /\ inbox' = IF peer[w] = "down" THEN inbox
                     ELSE [inbox EXCEPT ![w] = Append(@, Frame(b, data))]

\* The call send_data_to_subscribers(data); calls are numbered in call order.
send_data_to_subscribers(b, data) ==
    /\ bc[b].pc = "idle"
    /\ \A a \in Bcasts : a < b => bc[a].pc # "idle"
    /\ LoopTurn(b, data, NewIter, subscriptions)
    /\ UNCHANGED <<subscriptions, wsPc, peer>>
    /\ UNCHANGED dbVars
    /\ UNCHANGED labVars

\* The awaited send returns; the loop takes its next turn.
SendReturn(b) ==
    /\ bc[b].pc = "sending"
    /\ peer[bc[b].cur] = "up"
    /\ LoopTurn(b, bc[b].data, bc[b].it, bc[b].at)
    /\ UNCHANGED <<subscriptions, wsPc, peer>>
    /\ UNCHANGED dbVars
    /\ UNCHANGED labVars

\* A failed send that reaches an ingest handler which has stored its batch:
\* the handler answers 500 in place of its success.
SendRaiseSurfaced(b) ==
    /\ bc[b].pc = "sending"
    /\ peer[bc[b].cur] = "down"
    /\ bc' = [bc EXCEPT ![b].pc = "raised", ![b].exc = "SendError"]
    /\ req' = [r \in Reqs |->
                 IF req[r].op = "create" /\ req[r].pc = "done"
                 THEN [req[r] EXCEPT !.resp = Caught("send")]
                 ELSE req[r]]
    /\ UNCHANGED <<subscriptions, wsPc, peer, inbox>>
    /\ UNCHANGED <<heap, nextId, handed, batches, gone>>
    /\ UNCHANGED labVars

\* The awaited send raises (the client is gone); nothing in lines 124-126
\* catches it, so the exception leaves send_data_to_subscribers.
SendRaise(b) ==
    /\ bc[b].pc = "sending"
    /\ peer[bc[b].cur] = "down"
    /\ bc' = [bc EXCEPT ![b].pc = "raised", ![b].exc = "SendError"]
    /\ UNCHANGED <<subscriptions, wsPc, peer, inbox>>
    /\ UNCHANGED dbVars
    /\ UNCHANGED labVars

\* -------------------------------------- create_processed_agent_data
\* main.py:135-158: build the row list and execute the INSERT in the
\* handler's session; a failure answers 500 and the session is closed.
\* The handler is a coroutine with no await in it, so the event loop runs
\* one call of it at a time; worker threads still run between its steps.
create_execute(r, batch, ok) ==
    /\ req[r].pc = "idle"
    /\ \A q \in Reqs : ~(req[q].op = "create" /\ req[q].pc = "commit")
    /\ nextId + Len(batch) - 1 <= MaxId
    /\ IF ok
       THEN LET rows == InsertRows(batch, nextId) IN
            /\ req' = [req EXCEPT ![r] = [ReqIdle EXCEPT !.op = "create",
                                          !.pc = "commit", !.input = batch,
                                          !.tx = rows]]
            /\ nextId' = nextId + Len(batch)
            /\ batches' = batches \cup {SeqIds(rows)}
       ELSE /\ req' = [req EXCEPT ![r] = [ReqIdle EXCEPT !.op = "create",
                                          !.pc = "done", !.dbfail = TRUE,
                                          !.resp = Caught("db")]]
            /\ UNCHANGED <<nextId, batches>>
    /\ UNCHANGED <<heap, handed, gone>>
    /\ UNCHANGED wsVars
    /\ UNCHANGED labVars

\* main.py:159-163: commit, close the session, return None.
create_commit(r, ok) ==
    /\ req[r].op = "create"
    /\ req[r].pc = "commit"
    /\ heap' = CommitInsert(heap, req[r].tx, ok)
    /\ handed' = handed \cup CreateNotify(req[r].tx, ok)
    /\ req' = [req EXCEPT ![r].pc = "done", ![r].dbfail = ~ok,
                          ![r].resp = IF ok THEN ReturnPlain(None)
                                      ELSE Caught("db")]
    /\ UNCHANGED <<nextId, batches, gone>>
    /\ UNCHANGED wsVars
    /\ UNCHANGED labVars

\* ---------------------------------------- read_processed_agent_data
\* main.py:168-179: one SELECT; the handler returns what fetchone() gave.
read_processed_agent_data(r, id, ok) ==
    /\ req[r].pc = "idle"
    /\ req' = [req EXCEPT ![r] =
                 IF ok
                 THEN [ReqIdle EXCEPT !.op = "read", !.pc = "done", !.id = id,
                                      !.sel = SelectById(heap, id),
                                      !.resp = ReturnModel(SelectById(heap, id))]
                 ELSE [ReqIdle EXCEPT !.op = "read", !.pc = "done", !.id = id,
                                      !.dbfail = TRUE,
                                      !.resp = Caught("db")]]
    /\ UNCHANGED <<heap, nextId, handed, batches, gone>>
    /\ UNCHANGED wsVars
    /\ UNCHANGED labVars

\* ---------------------------------------- list_processed_agent_data
\* main.py:185-194: db.query(processed_agent_data).all(), no ORDER BY.
list_processed_agent_data(r, ok) ==
    /\ req[r].pc = "idle"
    /\ req' = [req EXCEPT ![r] =
                 IF ok
                 THEN [ReqIdle EXCEPT !.op = "list", !.pc = "done",
                                      !.resp = ReturnPlain(heap)]
                 ELSE [ReqIdle EXCEPT !.op = "list", !.pc = "done",
                                      !.dbfail = TRUE,
                                      !.resp = Caught("db")]]
    /\ UNCHANGED <<heap, nextId, handed, batches, gone>>
    /\ UNCHANGED wsVars
    /\ UNCHANGED labVars

\* -------------------------------------- update_processed_agent_data
\* main.py:202-216: execute the UPDATE; it matches the row with this id, if
\* there is one, and waits while another session holds the row.
update_execute(r, id, item, ok) ==
    /\ req[r].pc = "idle"
    /\ ~Locked(r, id)
    /\ req' = [req EXCEPT ![r] =
                 IF ok
                 THEN [ReqIdle EXCEPT !.op = "update", !.pc = "commit", !.id = id,
                         !.input = <<item>>,
                         !.tx = IF SelectById(heap, id) = None THEN <<>>
                                ELSE <<StoredRow(id, Flatten(item))>>]
                 ELSE [ReqIdle EXCEPT !.op = "update", !.pc = "done", !.id = id,
                                      !.dbfail = TRUE,
                                      !.resp = Caught("db")]]
    /\ UNCHANGED <<heap, nextId, handed, batches, gone>>
    /\ UNCHANGED wsVars
    /\ UNCHANGED labVars

\* main.py:217: db.commit().
update_commit(r, ok) ==
    /\ req[r].op = "update"
    /\ req[r].pc = "commit"
    /\ heap' = CommitUpdate(heap, req[r].tx, ok)
    /\ req' = [req EXCEPT ![r] =
                 IF ok THEN [@ EXCEPT !.pc = "select"]
                 ELSE [@ EXCEPT !.pc = "done", !.dbfail = TRUE,
                                !.resp = Caught("db")]]
    /\ UNCHANGED <<nextId, handed, batches, gone>>
    /\ UNCHANGED wsVars
    /\ UNCHANGED labVars

\* main.py:219-225: select the row again and return what fetchone() gave.
update_select(r, ok) ==
    /\ req[r].op = "update"
    /\ req[r].pc = "select"
    /\ req' = [req EXCEPT ![r] =
                 IF ok
                 THEN [@ EXCEPT !.pc = "done", !.sel = SelectById(heap, req[r].id),
                                !.resp = ReturnModel(SelectById(heap, req[r].id))]
                 ELSE [@ EXCEPT !.pc = "done", !.dbfail = TRUE,
                                !.resp = Caught("db")]]
    /\ UNCHANGED <<heap, nextId, handed, batches, gone>>
    /\ UNCHANGED wsVars
    /\ UNCHANGED labVars

\* -------------------------------------- delete_processed_agent_data
\* What the handler answers when its SELECT found no row (main.py:236-244):
\* the HTTPException(400) is raised inside the try block, "except Exception"
\* catches it, and the handler raises HTTPException(500) in its place.
DeleteNotFound == Caught(HTTPException(HTTP_BAD_REQUEST, "Not found"))

\* main.py:231-237: select the row; without one the handler is finished.
delete_select(r, id, ok) ==
    /\ req[r].pc = "idle"
    /\ req' = [req EXCEPT ![r] =
                 IF ~ok
                 THEN [ReqIdle EXCEPT !.op = "delete", !.pc = "done", !.id = id,
                                      !.dbfail = TRUE,
                                      !.resp = Caught("db")]
                 ELSE IF SelectById(heap, id) = None
                 THEN [ReqIdle EXCEPT !.op = "delete", !.pc = "done", !.id = id,
                                      !.resp = DeleteNotFound]
                 ELSE [ReqIdle EXCEPT !.op = "delete", !.pc = "execute", !.id = id,
                                      !.sel = SelectById(heap, id)]]
    /\ UNCHANGED <<heap, nextId, handed, batches, gone>>
    /\ UNCHANGED wsVars
    /\ UNCHANGED labVars

\* main.py:239-240: execute the DELETE; it matches the row if it still is
\* there, and waits while another session holds the row.
delete_execute(r, ok) ==
    /\ req[r].op = "delete"
    /\ req[r].pc = "execute"
    /\ ~Locked(r, req[r].id)
    /\ req' = [req EXCEPT ![r] =
                 IF ok
                 THEN [@ EXCEPT !.pc = "commit",
                         !.tx = SelectById(heap, req[r].id)]
                 ELSE [@ EXCEPT !.pc = "done", !.dbfail = TRUE,
                                !.resp = Caught("db")]]
    /\ UNCHANGED <<heap, nextId, handed, batches, gone>>
    /\ UNCHANGED wsVars
    /\ UNCHANGED labVars

\* main.py:241-246: commit and return the row selected at the start.
delete_commit(r, ok) ==
    /\ req[r].op = "delete"
    /\ req[r].pc = "commit"
    /\ heap' = CommitDelete(heap, req[r].tx, ok)
    /\ gone' = IF ok THEN gone \cup SeqIds(req[r].tx) ELSE gone
    /\ req' = [req EXCEPT ![r] =
                 IF ok THEN [@ EXCEPT !.pc = "done", !.resp = ReturnModel(req[r].sel)]
                 ELSE [@ EXCEPT !.pc = "done", !.dbfail = TRUE,
                                !.resp = Caught("db")]]
    /\ UNCHANGED <<nextId, handed, batches>>
    /\ UNCHANGED wsVars
    /\ UNCHANGED labVars

\* The response has gone out; the slot takes the next request.
Respond(r) ==
    /\ req[r].pc = "done"
    /\ req' = [req EXCEPT ![r] = ReqIdle]
    /\ UNCHANGED <<heap, nextId, handed, batches, gone>>
    /\ UNCHANGED wsVars
    /\ UNCHANGED labVars

\* ------------------------------------------------------ specifications
NextWs ==
    \/ \E w \in WS : WsConnect(w)
    \/ \E w \in WS : WsAccepted(w)
    \/ \E w \in WS : WsReceiveText(w)
    \/ \E w \in WS : WsDisconnect(w)
    \/ \E w \in WS : PeerClose(w)

NextBroadcast ==
    \/ \E w \in WS : PeerStall(w)
    \/ \E b \in Bcasts, d \in Items : send_data_to_subscribers(b, d)
    \/ \E b \in Bcasts : SendReturn(b)
    \/ \E b \in Bcasts : SendRaise(b)

NextCreate ==
    \/ \E r \in Reqs, batch \in Batches, ok \in BOOLEAN : create_execute(r, batch, ok)
    \/ \E r \in Reqs, ok \in BOOLEAN : create_commit(r, ok)
    \/ \E r \in Reqs : Respond(r)

NextRead ==
    \/ \E r \in Reqs, id \in Ids, ok \in BOOLEAN : read_processed_agent_data(r, id, ok)
    \/ \E r \in Reqs, ok \in BOOLEAN : list_processed_agent_data(r, ok)

NextWrite ==
    \/ \E r \in Reqs, id \in Ids, item \in Items, ok \in BOOLEAN :
          update_execute(r, id, item, ok)
    \/ \E r \in Reqs, ok \in BOOLEAN : update_commit(r, ok)
    \/ \E r \in Reqs, ok \in BOOLEAN : update_select(r, ok)
    \/ \E r \in Reqs, id \in Ids, ok \in BOOLEAN : delete_select(r, id, ok)
    \/ \E r \in Reqs, ok \in BOOLEAN : delete_execute(r, ok)
    \/ \E r \in Reqs, ok \in BOOLEAN : delete_commit(r, ok)

\* The registry and the broadcaster, called with any payload.
SpecBroadcast == Init /\ [][NextWs \/ NextBroadcast]_vars

\* The HTTP handlers over the store.
SpecStore == Init /\ [][NextCreate \/ NextRead \/ NextWrite]_vars

\* Ingestion with readers running beside it.
SpecCreateRead == Init /\ [][NextCreate \/ NextRead]_vars

\* The event loop runs the calls of create_processed_agent_data one after
\* another: one handler slot carries them all.
NextIngest ==
    \/ \E batch \in Batches, ok \in BOOLEAN : create_execute(1, batch, ok)
    \/ \E ok \in BOOLEAN : create_commit(1, ok)
    \/ Respond(1)

\* The service as deployed: the WebSocket endpoint and the ingest handler.
\* Nothing in main.py calls send_data_to_subscribers.
SpecIngest == Init /\ [][NextWs \/ NextIngest]_vars

\* The event loop resumes a coroutine once the send it awaits has returned
\* or raised, and delivers a disconnect to the endpoint waiting for it.
FairBroadcast ==
    /\ \A b \in Bcasts : WF_vars(SendReturn(b)) /\ WF_vars(SendRaise(b))
    /\ \A w \in WS : WF_vars(WsDisconnect(w))

SpecBroadcastFair == SpecBroadcast /\ FairBroadcast

\* One call of send_data_to_subscribers.
NextNotify ==
    \/ \E d \in Items : send_data_to_subscribers(1, d)
    \/ SendReturn(1)
    \/ SendRaise(1)

\* Every way a connection ends, with one call of the broadcaster.
NextWsError == \E w \in WS : WsReceiveError(w)

SpecLifecycle == Init /\ [][NextWs \/ NextWsError \/ NextNotify]_vars

\* Two connections: one to fail, one to stay.
NextPair ==
    \/ \E w \in {1, 2} : WsConnect(w)
    \/ \E w \in {1, 2} : WsAccepted(w)
    \/ \E w \in {1, 2} : WsDisconnect(w)
    \/ \E w \in {1, 2} : PeerClose(w)

\* The ingest handler and two subscribers, with a caller of the broadcaster
\* beside them.
SpecDurable == Init /\ [][NextPair \/ NextIngest \/ NextNotify]_vars

\* Requests served one at a time: one handler slot carries them all, each
\* answered before the next arrives.
NextSequential ==
    \/ \E batch \in Batches, ok \in BOOLEAN : create_execute(1, batch, ok)
    \/ \E ok \in BOOLEAN : create_commit(1, ok)
    \/ \E id \in Ids, ok \in BOOLEAN : read_processed_agent_data(1, id, ok)
    \/ \E ok \in BOOLEAN : list_processed_agent_data(1, ok)
    \/ \E id \in Ids, item \in Items, ok \in BOOLEAN : update_execute(1, id, item, ok)
    \/ \E ok \in BOOLEAN : update_commit(1, ok)
    \/ \E ok \in BOOLEAN : update_select(1, ok)
    \/ \E id \in Ids, ok \in BOOLEAN : delete_select(1, id, ok)
    \/ \E ok \in BOOLEAN : delete_execute(1, ok)
    \/ \E ok \in BOOLEAN : delete_commit(1, ok)
    \/ Respond(1)

SpecSequential == Init /\ [][NextSequential]_vars

\* The store used by one request at a time while connections come and go.
SpecFrame == Init /\ [][NextSequential \/ NextPair]_vars

\* The classifier applied to a sample.
SpecClassify == InitClassify /\ [][ProcessCall]_vars

\* A FileDatasource read until its files end.
NextSource ==
    \/ startReading
    \/ \E now \in Clock : ReadCall(now)

SpecSource == InitSource /\ [][NextSource]_vars

\* -------------------------------------------------------------- claims
HeapIds == SeqIds(heap)

\* Connection w holds a frame of call b.
Has(w, b) == \E i \in DOMAIN inbox[w] : inbox[w][i].call = b

Live(w) == w \in subscriptions /\ wsPc[w] = "receiving" /\ peer[w] = "up"

\* The NotFound outcome: a response of the client-error class.
IsNotFound(resp) == resp.status >= 400 /\ resp.status < 500

\* A handler has finished without any database call failing.
Finished(r, op) == req[r].op = op /\ req[r].pc = "done" /\ ~req[r].dbfail

\* C1: fan-out on ingest.  Every successful ingest reaches every subscriber
\* registered at that time: in the step in which the handler commits its
\* batch and returns, it has passed every record of the batch to
\* send_data_to_subscribers if a live subscriber is registered (nothing runs
\* for the request after its return, so no push can come later).
C1_FanOutOnIngest ==
    [][\A r \in Reqs :
         (/\ req[r].op = "create" /\ req[r].pc = "commit"
          /\ req'[r].pc = "done" /\ req'[r].resp.status = HTTP_OK
          /\ \E w \in WS : Live(w))
         => SeqIds(req[r].tx) \subseteq handed']_vars

\* C2: broadcast fault isolation.  When a send of a broadcast over several
\* subscribers has failed, the subscriber it failed for is removed from the
\* registry and every other subscriber registered since the call holds the
\* payload.
C2_FaultIsolation ==
    \A b \in Bcasts :
        (bc[b].exc = "SendError" /\ Cardinality(bc[b].at) >= 2) =>
            /\ bc[b].cur \notin subscriptions
            /\ \A w \in (bc[b].at \cap subscriptions) \ {bc[b].cur} :
                   Live(w) => Has(w, b)

\* C3: safe race of registry mutation and broadcast.  A broadcast never
\* raises for a set that changed during its iteration, it sends only to
\* connections of the set as it was at the call, and a finished broadcast
\* has delivered to every subscriber registered at the call and still live.
C3_SafeRace ==
    \A b \in Bcasts :
        /\ bc[b].exc # "RuntimeError"
        /\ bc[b].pc = "sending" => bc[b].cur \in bc[b].at
        /\ bc[b].pc = "done" =>
               \A w \in bc[b].at \cap subscriptions : Live(w) => Has(w, b)

\* C4: per-subscriber ordering.  Every connection holds the frames of
\* earlier calls of send_data_to_subscribers before those of later calls.
C4_PerSubscriberOrder ==
    \A w \in WS : \A i, j \in DOMAIN inbox[w] :
        i < j => inbox[w][i].call <= inbox[w][j].call

\* C5: bounded broadcast.  A broadcast over several subscribers that is
\* waiting for a send ends (returns or raises), whatever the subscriber it
\* is sending to does.
C5_BroadcastEnds ==
    \A b \in Bcasts :
        (bc[b].pc = "sending" /\ Cardinality(bc[b].at) >= 2)
            ~> (bc[b].pc \in {"done", "raised"})

\* C6: no unstored record is broadcast.  Every record the ingest handler has
\* passed to the broadcaster is a committed record (in the table or deleted
\* from it since), and an ingest whose persistence failed has passed none of
\* its batch.
C6_NoUnstoredBroadcast ==
    /\ handed \subseteq (HeapIds \cup gone)
    /\ \A r \in Reqs :
           (req[r].op = "create" /\ req[r].pc = "done" /\ req[r].dbfail)
               => SeqIds(req[r].tx) \cap handed = {}

\* An ingest failed at its commit while a live subscriber was registered.
C6_Witness ==
    \E r \in Reqs :
        /\ req[r].op = "create" /\ req[r].pc = "done" /\ req[r].dbfail
        /\ req[r].tx # <<>>
        /\ \E w \in WS : Live(w)

\* Of batch B, the id set seen holds nothing, or all that is not deleted.
Whole(B, seen) == (B \cap seen = {}) \/ ((B \cap seen) \cup (B \cap gone) = B)

\* C7: atomic batch insert.  A failed ingest answers with a failure and
\* none of its rows is in the table; the table and every list response hold
\* of each batch nothing or all of it, and a read returns a row only of a
\* batch that is committed as a whole.
C7_AtomicBatch ==
    /\ \A r \in Reqs :
           (req[r].op = "create" /\ req[r].pc = "done" /\ req[r].dbfail)
               => /\ req[r].resp.status = HTTP_ERROR
                  /\ SeqIds(req[r].tx) \cap HeapIds = {}
    /\ \A B \in batches : Whole(B, HeapIds)
    /\ \A r \in Reqs : \A B \in batches :
           /\ Finished(r, "list") => Whole(B, SeqIds(req[r].resp.body))
           /\ (Finished(r, "read") /\ B \cap SeqIds(req[r].resp.body) # {})
                  => B \subseteq (HeapIds \cup gone)

\* A batch of two rows failed at its commit and a reader has listed the
\* table.
C7_Witness ==
    \E r, q \in Reqs :
        /\ req[r].op = "create" /\ req[r].pc = "done" /\ req[r].dbfail
        /\ Len(req[r].tx) >= 2
        /\ Finished(q, "list")

\* C8: getById not-found.  A read of an id that is not in the table answers
\* NotFound.
C8_ReadNotFound ==
    \A r \in Reqs :
        (Finished(r, "read") /\ req[r].sel = None) => IsNotFound(req[r].resp)

\* C9: updateById not-found.  An update of an id that is not in the table
\* (the UPDATE matched no row and the row is not there afterwards) answers
\* NotFound.
C9_UpdateNotFound ==
    \A r \in Reqs :
        (Finished(r, "update") /\ req[r].tx = <<>> /\ req[r].sel = None)
            => IsNotFound(req[r].resp)

\* C10: deleteById not-found.  A delete of an id that is not in the table
\* answers NotFound, which is not the answer given for a database failure.
C10_DeleteNotFound ==
    \A r \in Reqs :
        (Finished(r, "delete") /\ req[r].sel = None)
            => /\ IsNotFound(req[r].resp)
               /\ req[r].resp # Caught("db")

\* The StoredRecord of item p under an id: each column holds the field of p
\* of its name.
RecordOf(id, p) ==
    [id |-> id,
     road_state |-> p.road_state,
     x |-> p.agent_data.accelerometer.x,
     y |-> p.agent_data.accelerometer.y,
     z |-> p.agent_data.accelerometer.z,
     latitude |-> p.agent_data.gps.latitude,
     longitude |-> p.agent_data.gps.longitude,
     timestamp |-> p.agent_data.timestamp]

C12_DeleteThenRead ==
    /\ \A r \in Reqs :
           (Finished(r, "delete") /\ req[r].sel # None)
               => /\ req[r].resp.status = HTTP_OK
                  /\ req[r].resp.body = req[r].tx
                  /\ req[r].id \notin HeapIds
    /\ \A r \in Reqs :
           (Finished(r, "read") /\ req[r].id \in gone /\ req[r].sel = None)
               => IsNotFound(req[r].resp)

\* C13: classifier threshold.  For every sample process_agent_data returns
\* the sample with a label: "pit" when the y reading is above 15, "straight"
\* when it is 15 or below, and no other label.
C13_Classifier ==
    processed # None =>
        /\ processed[1].agent_data = sample
        /\ processed[1].road_state \in {"pit", "straight"}
        /\ sample.accelerometer.y > 15 => processed[1].road_state = "pit"
        /\ sample.accelerometer.y <= 15 => processed[1].road_state = "straight"

\* The sample at the boundary has been classified.
C13_Witness ==
    /\ processed # None
    /\ sample.accelerometer.y = 15
    /\ processed[1].road_state = "straight"

C15_ListOrder ==
    \A r \in Reqs :
        Finished(r, "list") =>
            LET body == req[r].resp.body IN
            /\ req[r].resp.status = HTTP_OK
            /\ {body[i] : i \in DOMAIN body} = {heap[i] : i \in DOMAIN heap}
            /\ \A i, j \in DOMAIN body : i < j => body[i].id < body[j].id

\* C16: reader end-of-stream.  After startReading() every call of read()
\* returns to its caller: one aggregated sample while each source has a row
\* left, and an end-of-stream outcome once a source is exhausted; no call
\* leaves read() by an exception.
C16_EndOfStream ==
    /\ (fds.pc = "reading" /\ fds.reads > 0) => Len(fds.out) = 1
    /\ fds.exc = ""

\* C17: subscriber lifecycle.  A connection is in the subscriber set only
\* while it is open: it is added once accept has completed, and when its
\* endpoint has ended, for whatever reason, it is in the set no longer.
C17_Lifecycle ==
    \A w \in WS : w \in subscriptions => wsPc[w] = "receiving"

C19_Frame ==
    [][/\ \A i \in SeqIds(heap) :
              SelectById(heap', i) # SelectById(heap, i)
                  => \E r \in Reqs :
                         /\ req[r].op \in {"update", "delete"}
                         /\ req[r].pc = "commit"
                         /\ req[r].id = i
                         /\ req'[r].pc # "commit"
       /\ req' # req => subscriptions' = subscriptions]_vars

\* A delete has removed one record of two while a subscriber was registered.
C19_Witness ==
    \E r \in Reqs :
        /\ Finished(r, "delete") /\ req[r].tx # <<>>
        /\ Len(heap) = 1
        /\ heap[1].id # req[r].id
        /\ subscriptions # {}

\* C20: source alignment.  After startReading() has skipped the header row
\* of each file, the k-th read() that returns combines the k-th data row of
\* the accelerometer, gps and parking files, and after every read() that
\* returns each reader has handed out the same number of rows.
C20_Aligned ==
    (fds.pc = "reading" /\ fds.reads > 0) =>
        LET k == fds.reads IN
        /\ fds.accelerometer_data = k + 1
        /\ fds.gps_data = k + 1
        /\ fds.parking_data = k + 1
        /\ \E now \in Clock :
               fds.out = <<AggregatedData(files.accelerometer[k + 1],
                                          files.gps[k + 1],
                                          files.parking[k + 1], now)>>

\* The second read() has returned.
C20_Witness == fds.pc = "reading" /\ fds.reads = 2
====
